---- MODULE Spec2Model ----
(***************************************************************************)
(* Model of the retrieval pipeline of rag_system.py (CarbonFootprintRAG).  *)
(*                                                                         *)
(* Strings are sequences of one-character strings, so that len(), the      *)
(* f-string formatting and "\n".join are computed, not assumed.            *)
(* A FAISS store is the pair (index, docstore): the vectors in insertion   *)
(* order and the documents they map to by position.  The persisted index   *)
(* directory holds the two files save_local writes, index.faiss and        *)
(* index.pkl.                                                              *)
(***************************************************************************)
EXTENDS Integers, Sequences, FiniteSets, TLC

VARIABLES vector_store, qa_chain, disk, kb, crashes, last,
          rag_instance, constructed, threads

vars == <<vector_store, qa_chain, disk, kb, crashes, last,
          rag_instance, constructed, threads>>

singleton == <<rag_instance, constructed, threads>>

(***************************************************************************)
(* Bounds of the model.                                                    *)
(***************************************************************************)
MaxEntries == 2

MaxLength == 56

MaxCrashes == 1

MaxCalls == 2

(***************************************************************************)
(* Documents, queries and strings.                                         *)
(***************************************************************************)
Document(text, src) == [page_content |-> text, source |-> src]

DocA == Document(<<"a">>, "f1.txt")

DocB == Document(<<"b", "b", "b">>, "f2.txt")

DocE == Document(<<>>, "f3.txt")

Docs == {DocA, DocB, DocE}

Questions == {<<"a">>, <<"b">>}

RECURSIVE SeqsUpTo(_, _)
SeqsUpTo(S, n) ==
    IF n = 0 THEN {<<>>}
    ELSE LET shorter == SeqsUpTo(S, n - 1)
         IN  shorter \cup {Append(s, e) : s \in shorter, e \in S}

Digits == <<"0", "1", "2", "3", "4", "5", "6", "7", "8", "9">>

RECURSIVE str(_)
str(n) ==
    IF n < 10 THEN <<Digits[n + 1]>>
    ELSE str(n \div 10) \o <<Digits[(n % 10) + 1]>>

NoContext ==
    <<"N", "o", " ", "r", "e", "l", "e", "v", "a", "n", "t", " ",
      "c", "o", "n", "t", "e", "x", "t", " ", "f", "o", "u", "n", "d", " ",
      "i", "n", " ", "k", "n", "o", "w", "l", "e", "d", "g", "e", " ",
      "b", "a", "s", "e", ".">>

(***************************************************************************)
(* get_context_for_agent, lines 240-253: the formatting of the ranked      *)
(* documents into a bounded context string.                                *)
(***************************************************************************)
SourceHeader(i) == <<"[", "S", "o", "u", "r", "c", "e", " ">> \o str(i) \o <<"]", ":", " ">>

doc_text(i, doc) == SourceHeader(i) \o doc.page_content \o <<"\n">>

exceeds_checked_late(current_length, text, max_length) == current_length > max_length

exceeds(current_length, text, max_length) == current_length + Len(text) > max_length

RECURSIVE context_loop_skipping(_, _, _, _, _)
context_loop_skipping(docs, i, context_parts, current_length, max_length) ==
    IF i > Len(docs) THEN context_parts
    ELSE LET text == doc_text(i, docs[i])
         IN  IF exceeds(current_length, text, max_length)
             THEN context_loop_skipping(docs, i + 1, context_parts,
                                        current_length, max_length)
             ELSE context_loop_skipping(docs, i + 1, Append(context_parts, text),
                                        current_length + Len(text), max_length)

RECURSIVE context_loop(_, _, _, _, _)
context_loop(docs, i, context_parts, current_length, max_length) ==
    IF i > Len(docs) THEN context_parts
    ELSE LET text == doc_text(i, docs[i])
         IN  IF exceeds(current_length, text, max_length)
             THEN context_parts
             ELSE context_loop(docs, i + 1, Append(context_parts, text),
                               current_length + Len(text), max_length)

RECURSIVE join(_, _)
join(sep, parts) ==
    IF parts = <<>> THEN <<>>
    ELSE IF Len(parts) = 1 THEN parts[1]
    ELSE parts[1] \o sep \o join(sep, Tail(parts))

format_context_no_sentinel(docs, max_length) ==
    join(<<"\n">>, context_loop(docs, 1, <<>>, 0, max_length))

format_context(docs, max_length) ==
    IF docs = <<>> THEN NoContext
    ELSE join(<<"\n">>, context_loop(docs, 1, <<>>, 0, max_length))

(***************************************************************************)
(* The embedding model and the FAISS store (library behaviour the          *)
(* pipeline relies on): unit vectors, a flat L2 index scanned              *)
(* exhaustively, positions mapped to documents by index_to_docstore_id.    *)
(***************************************************************************)
K == 4

embed(text) ==
    IF text = <<>> THEN <<-1, 0>>
    ELSE IF text[1] = "a" THEN <<1, 0>>
    ELSE <<0, 1>>

embed_documents(docs) == [i \in 1..Len(docs) |-> embed(docs[i].page_content)]

distance(u, v) == (u[1] - v[1]) * (u[1] - v[1]) + (u[2] - v[2]) * (u[2] - v[2])

FAISS_from_documents(docs) == [index |-> embed_documents(docs), docstore |-> docs]

store_add_documents_prepending(store, docs) ==
    [index |-> embed_documents(docs) \o store.index, docstore |-> docs \o store.docstore]

store_add_documents(store, docs) ==
    [index |-> store.index \o embed_documents(docs), docstore |-> store.docstore \o docs]

RECURSIVE nearest(_, _, _, _)
nearest(index, qv, k, taken) ==
    LET rest == (1..Len(index)) \ taken
    IN  IF k = 0 \/ rest = {} THEN <<>>
        ELSE LET best == CHOOSE i \in rest : \A j \in rest :
                             \/ distance(index[i], qv) < distance(index[j], qv)
                             \/ distance(index[i], qv) = distance(index[j], qv) /\ i <= j
             IN  <<best>> \o nearest(index, qv, k - 1, taken \cup {best})

similarity_search(store, query, k) ==
    LET hits == nearest(store.index, embed(query), k, {})
    IN  IF \E n \in 1..Len(hits) : hits[n] > Len(store.docstore)
        THEN [err |-> "KeyError", docs |-> <<>>]
        ELSE [err |-> "", docs |-> [n \in 1..Len(hits) |-> store.docstore[hits[n]]]]

(***************************************************************************)
(* The persisted index directory <knowledge_base>/faiss_index.             *)
(***************************************************************************)
Missing == [st |-> "missing", data |-> <<>>]

Partial == [st |-> "partial", data |-> <<>>]

Written(data) == [st |-> "ok", data |-> data]

NoDisk == [exists |-> FALSE, faiss |-> Missing, pkl |-> Missing]

save_local(d, store) ==
    [exists |-> TRUE, faiss |-> Written(store.index), pkl |-> Written(store.docstore)]

CrashPoints == {"mkdir", "faiss_partial", "faiss_written", "pkl_partial"}

save_local_crash(d, store, point) ==
    CASE point = "mkdir"         -> [d EXCEPT !.exists = TRUE]
      [] point = "faiss_partial" -> [d EXCEPT !.exists = TRUE, !.faiss = Partial]
      [] point = "faiss_written" -> [d EXCEPT !.exists = TRUE, !.faiss = Written(store.index)]
      [] point = "pkl_partial"   -> [exists |-> TRUE, faiss |-> Written(store.index), pkl |-> Partial]

FAISS_load_local(d) ==
    IF d.faiss.st # "ok" \/ d.pkl.st # "ok"
    THEN [err |-> "RuntimeError", index |-> <<>>, docstore |-> <<>>]
    ELSE [err |-> "", index |-> d.faiss.data, docstore |-> d.pkl.data]

(***************************************************************************)
(* The pipeline object.  vector_store is None or a store; qa_chain is None *)
(* or a chain whose retriever either aliases the object vector_store       *)
(* currently refers to, or holds an object vector_store no longer refers   *)
(* to (its contents then never change).                                    *)
(***************************************************************************)
None == [some |-> FALSE, index |-> <<>>, docstore |-> <<>>]

Some(store) == [some |-> TRUE, index |-> store.index, docstore |-> store.docstore]

NoChain == [set |-> FALSE, alias |-> FALSE, index |-> <<>>, docstore |-> <<>>]

NoRet == [docs |-> <<>>, text |-> <<>>, answer |-> ""]

Raise(S, e) == [S EXCEPT !.err = e]

Call(S, name) == [S EXCEPT !.trace = Append(@, name)]

Assign(S, store) ==
    [S EXCEPT !.vector_store = Some(store),
              !.qa_chain = IF @.set /\ @.alias
                           THEN [set |-> TRUE, alias |-> FALSE,
                                 index |-> S.vector_store.index,
                                 docstore |-> S.vector_store.docstore]
                           ELSE @]

File(readable, chunks) == [readable |-> readable, chunks |-> chunks]

RECURSIVE split_documents(_)
split_documents(files) ==
    IF files = <<>> THEN <<>> ELSE Head(files).chunks \o split_documents(Tail(files))

load_documents(files) ==
    IF \E i \in 1..Len(files) : ~files[i].readable
    THEN <<>>
    ELSE split_documents(files)

Given(docs) == [none |-> FALSE, list |-> docs]

Default == [none |-> TRUE, list |-> <<>>]

create_vector_store(S, documents) ==
    LET S0   == IF documents.none
                THEN Call(Call(S, "create_vector_store"), "load_documents")
                ELSE Call(S, "create_vector_store")
        docs == IF documents.none THEN load_documents(S.kb) ELSE documents.list
    IN  IF docs = <<>> THEN S0
        ELSE LET store == FAISS_from_documents(docs)
                 S1    == Assign(Call(S0, "FAISS.from_documents"), store)
             IN  [Call(S1, "save_local") EXCEPT !.disk = save_local(@, store)]

load_vector_store_rebuilding(S) ==
    LET S0 == Call(S, "load_vector_store")
    IN  IF S0.disk.exists
        THEN LET loaded == FAISS_load_local(S0.disk)
                 S1     == Call(S0, "FAISS.load_local")
             IN  IF loaded.err # "" THEN create_vector_store(S1, Default)
                 ELSE Assign(S1, loaded)
        ELSE create_vector_store(S0, Default)

load_vector_store(S) ==
    LET S0 == Call(S, "load_vector_store")
    IN  IF S0.disk.exists
        THEN LET loaded == FAISS_load_local(S0.disk)
                 S1     == Call(S0, "FAISS.load_local")
             IN  IF loaded.err # "" THEN Raise(S1, loaded.err)
                 ELSE Assign(S1, loaded)
        ELSE create_vector_store(S0, Default)

add_documents_unsaved(S, documents) ==
    LET S0 == Call(S, "add_documents")
        S1 == IF ~S0.vector_store.some THEN load_vector_store(S0) ELSE S0
    IN  IF S1.err # "" THEN S1
        ELSE IF documents = <<>> THEN S1
        ELSE IF ~S1.vector_store.some
             THEN Raise(Call(S1, "vector_store.add_documents"), "AttributeError")
        ELSE [Call(S1, "vector_store.add_documents")
                 EXCEPT !.vector_store = Some(store_add_documents(@, documents))]

add_documents(S, documents) ==
    LET S0 == Call(S, "add_documents")
        S1 == IF ~S0.vector_store.some THEN load_vector_store(S0) ELSE S0
    IN  IF S1.err # "" THEN S1
        ELSE IF documents = <<>> THEN S1
        ELSE IF ~S1.vector_store.some
             THEN Raise(Call(S1, "vector_store.add_documents"), "AttributeError")
        ELSE LET store == store_add_documents(S1.vector_store, documents)
                 S2    == [Call(S1, "vector_store.add_documents")
                              EXCEPT !.vector_store = Some(store)]
             IN  [Call(S2, "save_local") EXCEPT !.disk = save_local(@, store)]

setup_qa_chain(S) ==
    LET S0 == Call(S, "setup_qa_chain")
        S1 == IF ~S0.vector_store.some THEN load_vector_store(S0) ELSE S0
    IN  IF S1.err # "" THEN S1
        ELSE IF ~S1.vector_store.some
             THEN Raise(Call(S1, "vector_store.as_retriever"), "AttributeError")
        ELSE [Call(S1, "vector_store.as_retriever")
                 EXCEPT !.qa_chain = [set |-> TRUE, alias |-> TRUE,
                                      index |-> <<>>, docstore |-> <<>>]]

retriever(S) == IF S.qa_chain.alias THEN S.vector_store ELSE S.qa_chain

query(S, question, llm_ok) ==
    LET S0 == Call(S, "query")
        S1 == IF ~S0.qa_chain.set THEN setup_qa_chain(S0) ELSE S0
    IN  IF S1.err # "" THEN S1
        ELSE LET S2    == Call(S1, "qa_chain.invoke")
                 found == similarity_search(retriever(S2), question, K)
             IN  IF found.err # "" \/ ~llm_ok
                 THEN [S2 EXCEPT !.ret = [docs |-> <<>>, text |-> <<>>,
                                          answer |-> "Error processing query"]]
                 ELSE [S2 EXCEPT !.ret = [docs |-> found.docs, text |-> <<>>,
                                          answer |-> "result"]]

retrieve_context_eager(S, question, k) ==
    LET S2 == Call(Call(S, "retrieve_context"), "vector_store.similarity_search")
    IN  IF ~S2.vector_store.some
        THEN [S2 EXCEPT !.ret = NoRet]
        ELSE LET found == similarity_search(S2.vector_store, question, k)
             IN  IF found.err # ""
                 THEN [S2 EXCEPT !.ret = NoRet]
                 ELSE [S2 EXCEPT !.ret = [docs |-> found.docs, text |-> <<>>,
                                          answer |-> ""]]

retrieve_context(S, question, k) ==
    LET S0 == Call(S, "retrieve_context")
        S1 == IF ~S0.vector_store.some THEN load_vector_store(S0) ELSE S0
    IN  IF S1.err # "" THEN S1
        ELSE LET S2 == Call(S1, "vector_store.similarity_search")
             IN  IF ~S2.vector_store.some
                 THEN [S2 EXCEPT !.ret = NoRet]
                 ELSE LET found == similarity_search(S2.vector_store, question, k)
                      IN  IF found.err # ""
                          THEN [S2 EXCEPT !.ret = NoRet]
                          ELSE [S2 EXCEPT !.ret = [docs |-> found.docs, text |-> <<>>,
                                                   answer |-> ""]]

get_context_for_agent(S, question, max_length) ==
    LET S1 == retrieve_context(Call(S, "get_context_for_agent"), question, K)
    IN  IF S1.err # "" THEN S1
        ELSE [S1 EXCEPT !.ret.text = format_context(S1.ret.docs, max_length)]

(***************************************************************************)
(* The state machine: one action per public operation of the pipeline,     *)
(* plus the process ending (cleanly, or while save_local is writing) and   *)
(* a new process constructing a fresh pipeline over the same directory.    *)
(***************************************************************************)
KnowledgeBases ==
    { <<>>,
      <<File(TRUE, <<>>)>>,
      <<File(TRUE, <<DocA>>)>>,
      <<File(TRUE, <<DocA>>), File(TRUE, <<DocB>>)>>,
      <<File(TRUE, <<DocA>>), File(FALSE, <<DocB>>)>> }

ArgLists == {<<>>, <<DocB>>, <<DocB, DocA>>}

AgentMaxLengths == {0, 20, 2000}

(***************************************************************************)
(* The module-level singleton: _rag_instance (0 stands for None, n > 0 for *)
(* the n-th CarbonFootprintRAG constructed) and the threads that call      *)
(* get_rag_system, each at a line of it.                                   *)
(***************************************************************************)
Threads == {1, 2}

Idle == [at |-> "idle", calls |-> 0, new |-> 0, returned |-> 0]

NoCalls ==
    /\ rag_instance = 0
    /\ constructed = 0
    /\ threads = [t \in Threads |-> Idle]

Self == [vector_store |-> vector_store, qa_chain |-> qa_chain, disk |-> disk,
         kb |-> kb, err |-> "", trace |-> <<>>, ret |-> NoRet]

Outcome(op, S, arg, n) ==
    [op |-> op, err |-> S.err, trace |-> S.trace, docs |-> S.ret.docs,
     text |-> S.ret.text, answer |-> S.ret.answer, arg |-> arg, n |-> n]

Bounded(S) ==
    /\ Len(S.vector_store.index) <= MaxEntries
    /\ Len(S.vector_store.docstore) <= MaxEntries

Commit(op, S, arg, n) ==
    /\ Bounded(S)
    /\ vector_store' = S.vector_store
    /\ qa_chain' = S.qa_chain
    /\ disk' = S.disk
    /\ last' = Outcome(op, S, arg, n)
    /\ UNCHANGED <<kb, crashes, singleton>>

Init ==
    /\ vector_store = None
    /\ qa_chain = NoChain
    /\ disk = NoDisk
    /\ kb \in KnowledgeBases
    /\ crashes = 0
    /\ NoCalls
    /\ last = Outcome("__init__", Self, <<>>, 0)

LoadDocuments ==
    Commit("load_documents",
           [Call(Self, "load_documents") EXCEPT !.ret.docs = load_documents(kb)], <<>>, 0)

CreateVectorStore ==
    \/ Commit("create_vector_store", create_vector_store(Self, Default),
              load_documents(kb), 0)
    \/ \E docs \in ArgLists :
          Commit("create_vector_store", create_vector_store(Self, Given(docs)), docs, 0)

LoadVectorStore == Commit("load_vector_store", load_vector_store(Self), <<>>, 0)

AddDocuments ==
    \E docs \in ArgLists : Commit("add_documents", add_documents(Self, docs), docs, 0)

SetupQAChain == Commit("setup_qa_chain", setup_qa_chain(Self), <<>>, 0)

Query ==
    \E question \in Questions, llm_ok \in BOOLEAN :
        Commit("query", query(Self, question, llm_ok), <<>>, 0)

RetrieveContext ==
    \E question \in Questions, k \in {1, K} :
        Commit("retrieve_context", retrieve_context(Self, question, k), <<>>, k)

GetContextForAgent ==
    \E question \in Questions, max_length \in AgentMaxLengths :
        Commit("get_context_for_agent",
               get_context_for_agent(Self, question, max_length), <<>>, max_length)

Fresh(op) ==
    /\ vector_store' = None
    /\ qa_chain' = NoChain
    /\ last' = [Outcome(op, Self, <<>>, 0) EXCEPT !.err = ""]
    /\ UNCHANGED <<kb, singleton>>

Restart ==
    /\ vector_store.some
    /\ Fresh("restart")
    /\ UNCHANGED <<disk, crashes>>

CrashInSave ==
    /\ crashes < MaxCrashes
    /\ \E docs \in ArgLists \ {<<>>}, point \in CrashPoints, adding \in BOOLEAN :
          LET S == IF adding THEN add_documents(Self, docs)
                   ELSE create_vector_store(Self, Given(docs))
          IN  /\ S.err = ""
              /\ Bounded(S)
              /\ disk' = save_local_crash(disk, S.vector_store, point)
    /\ crashes' = crashes + 1
    /\ Fresh("crash")

Next ==
    \/ LoadDocuments
    \/ CreateVectorStore
    \/ LoadVectorStore
    \/ AddDocuments
    \/ SetupQAChain
    \/ Query
    \/ RetrieveContext
    \/ GetContextForAgent
    \/ Restart
    \/ CrashInSave

Spec == Init /\ [][Next]_vars

(***************************************************************************)
(* The context formatting of get_context_for_agent as a function of the    *)
(* ranked result list and max_length: every list of at most K results      *)
(* over Docs and every max_length up to MaxLength.                         *)
(***************************************************************************)
InitAssemble ==
    /\ vector_store = None
    /\ qa_chain = NoChain
    /\ disk = NoDisk
    /\ kb = <<>>
    /\ crashes = 0
    /\ NoCalls
    /\ \E docs \in SeqsUpTo(Docs, K), max_length \in 0..MaxLength :
          last = [Outcome("retrieved", Self, <<>>, max_length) EXCEPT !.docs = docs]

FormatContext ==
    /\ last.op = "retrieved"
    /\ last' = [last EXCEPT !.op = "format_context",
                            !.text = format_context(last.docs, last.n)]
    /\ UNCHANGED <<vector_store, qa_chain, disk, kb, crashes, singleton>>

NextAssemble == FormatContext

SpecAssemble == InitAssemble /\ [][NextAssemble]_vars

(***************************************************************************)
(* Properties.                                                             *)
(***************************************************************************)
Loadable(d) == d.faiss.st = "ok" /\ d.pkl.st = "ok"

Has(trace, name) == \E i \in 1..Len(trace) : trace[i] = name

Uses == {"vector_store.similarity_search", "vector_store.add_documents",
         "vector_store.as_retriever", "qa_chain.invoke"}

LoadsFirst(trace) ==
    \E i \in 1..Len(trace) :
        /\ trace[i] = "load_vector_store"
        /\ \A j \in 1..Len(trace) : trace[j] \in Uses => i < j

\* C1: query(question) never propagates an error to its caller, from any
\* pipeline state, including no persisted index and an empty document source.
C1_QueryNeverRaises == last.op = "query" => last.err = ""

\* C2: get_context_for_agent never raises, from any pipeline state; on a
\* failure of the lazy load or of the search it returns the fixed
\* "No relevant context found in knowledge base." string.
C2_ContextNeverRaises ==
    last.op = "get_context_for_agent" =>
        /\ last.err = ""
        /\ last.docs = <<>> => last.text = NoContext

\* C3: load_vector_store loads the persisted index whenever one exists and
\* builds from the document source only when none exists; a persisted index
\* that exists but cannot be loaded surfaces the error, is not rebuilt, and
\* is left unchanged on disk.
C3_LoadPolicy ==
    [][last'.op = "load_vector_store" =>
        IF disk.exists
        THEN /\ disk' = disk
             /\ Has(last'.trace, "FAISS.load_local")
             /\ ~Has(last'.trace, "create_vector_store")
             /\ ~Has(last'.trace, "FAISS.from_documents")
             /\ IF Loadable(disk)
                THEN /\ last'.err = ""
                     /\ vector_store'.some
                     /\ vector_store'.index = disk.faiss.data
                     /\ vector_store'.docstore = disk.pkl.data
                ELSE /\ last'.err # ""
                     /\ vector_store' = vector_store
        ELSE /\ ~Has(last'.trace, "FAISS.load_local")
             /\ Has(last'.trace, "create_vector_store")
             /\ last'.err = ""
             /\ IF load_documents(kb) # <<>>
                THEN /\ vector_store'.some
                     /\ vector_store'.docstore = load_documents(kb)
                     /\ disk'.exists /\ Loadable(disk')
                     /\ disk'.pkl.data = load_documents(kb)
                ELSE vector_store' = vector_store /\ disk' = disk
    ]_vars

C3_Witness ==
    /\ last.op = "load_vector_store"
    /\ last.err = "RuntimeError"
    /\ disk.exists
    /\ ~Loadable(disk)
    /\ ~vector_store.some

\* C4: lazy initialisation: query, retrieve_context and add_documents invoked
\* while vector_store is None run load_vector_store before any search or
\* insertion; if a persisted index exists or the document source yields a
\* chunk, vector_store is not None when the operation returns; and once
\* vector_store is not None no operation of the pipeline makes it None.
C4_LazyInit ==
    [][ /\ (/\ ~vector_store.some
            /\ last'.op \in {"query", "retrieve_context", "add_documents",
                             "get_context_for_agent"})
           => /\ LoadsFirst(last'.trace)
              /\ (last'.err = "" /\ (disk.exists \/ load_documents(kb) # <<>>))
                    => vector_store'.some
        /\ (vector_store.some /\ last'.op \notin {"restart", "crash"})
           => vector_store'.some
    ]_vars

C4_Witness ==
    /\ last.op = "retrieve_context"
    /\ last.err = ""
    /\ Has(last.trace, "load_vector_store")
    /\ Has(last.trace, "FAISS.from_documents")
    /\ vector_store.some
    /\ last.docs # <<>>

\* C5: after every completed create_vector_store or add_documents call given
\* a non-empty document list, the persisted index holds exactly the entries
\* of the in-memory vector store, in the same order: a fresh load of it gives
\* the same store and the same search results.
C5_PersistedEqualsMemory ==
    (/\ last.op \in {"create_vector_store", "add_documents"}
     /\ last.err = ""
     /\ last.arg # <<>>)
    => /\ vector_store.some
       /\ disk.exists
       /\ Loadable(disk)
       /\ disk.faiss.data = vector_store.index
       /\ disk.pkl.data = vector_store.docstore
       /\ LET loaded == FAISS_load_local(disk)
          IN  /\ loaded.err = ""
              /\ \A question \in Questions, k \in 1..K :
                    similarity_search(loaded, question, k)
                        = similarity_search(vector_store, question, k)

C5_Witness ==
    /\ last.op = "add_documents"
    /\ last.err = ""
    /\ last.arg # <<>>
    /\ Len(vector_store.docstore) > Len(last.arg)
    /\ disk.pkl.data = vector_store.docstore

\* C6: for every non-empty ranked result list and every max_length N, the
\* string get_context_for_agent returns is never longer than N plus the
\* length of one "[Source i]: " header, newline separators included.
C6_LengthBound ==
    (last.op = "format_context" /\ last.docs # <<>>)
    => Len(last.text) <= last.n + 12

C6_Witness ==
    /\ last.op = "format_context"
    /\ Len(last.docs) > 1
    /\ Len(last.text) > last.n

C7_Block(i, doc) ==
    <<"[", "S", "o", "u", "r", "c", "e", " ", Digits[i + 1], "]", ":", " ">>
        \o doc.page_content \o <<"\n">>

RECURSIVE C7_Cumulative(_, _)
C7_Cumulative(docs, j) ==
    IF j = 0 THEN 0 ELSE C7_Cumulative(docs, j - 1) + Len(C7_Block(j, docs[j]))

C7_Fitting(docs, n) ==
    CHOOSE j \in 0..Len(docs) :
        /\ C7_Cumulative(docs, j) <= n
        /\ \A m \in 0..Len(docs) : C7_Cumulative(docs, m) <= n => m <= j

RECURSIVE C7_Joined(_, _)
C7_Joined(docs, j) ==
    IF j = 0 THEN <<>>
    ELSE IF j = 1 THEN C7_Block(1, docs[1])
    ELSE C7_Joined(docs, j - 1) \o <<"\n">> \o C7_Block(j, docs[j])

\* C7: the blocks get_context_for_agent includes are exactly the longest
\* prefix of the ranked results whose cumulative block length does not exceed
\* max_length: whole blocks "[Source i]: <text>\n", numbered from 1 in rank
\* order, and nothing ranked after the first block that does not fit.
C7_LongestPrefix ==
    (last.op = "format_context" /\ last.docs # <<>>)
    => last.text = C7_Joined(last.docs, C7_Fitting(last.docs, last.n))

C7_Witness ==
    /\ last.op = "format_context"
    /\ LET fit == C7_Fitting(last.docs, last.n)
       IN  /\ fit >= 1
           /\ fit + 2 <= Len(last.docs)
           /\ C7_Cumulative(last.docs, fit)
                 + Len(C7_Block(fit + 2, last.docs[fit + 2])) <= last.n
           /\ last.text = C7_Joined(last.docs, fit)

\* C8: when retrieval supplies no results, get_context_for_agent returns the
\* fixed string "No relevant context found in knowledge base." for every
\* max_length, never an empty string.
C8_EmptyGivesSentinel ==
    (last.op = "get_context_for_agent" /\ last.err = "" /\ last.docs = <<>>)
    => /\ last.text = NoContext
       /\ Len(last.text) = 44
       /\ last.text[1] = "N"

C8_Witness ==
    /\ last.op = "get_context_for_agent"
    /\ last.err = ""
    /\ last.docs = <<>>
    /\ last.n = 0
    /\ last.text = NoContext

\* C9: building an index from an empty entry list (create_vector_store with
\* no documents, given explicitly or loaded from an empty source) fails with
\* an EmptyInputError reported to the caller.
C9_EmptyBuildFails ==
    (last.op = "create_vector_store" /\ last.arg = <<>>)
    => last.err = "EmptyInputError"

RECURSIVE C10_Readable(_)
C10_Readable(files) ==
    IF files = <<>> THEN <<>>
    ELSE (IF Head(files).readable THEN Head(files).chunks ELSE <<>>)
             \o C10_Readable(Tail(files))

\* C10: in load_documents a read failure of one source file does not abort
\* loading the rest: the chunks of every other readable file are returned.
C10_PartialCorpusLoaded ==
    last.op = "load_documents" => last.docs = C10_Readable(kb)

Snapshot(d) ==
    /\ d.exists
    /\ Loadable(d)
    /\ d.faiss.data = embed_documents(d.pkl.data)

\* C11: persisted-index writes are atomic: after a crash at any point of the
\* save step of create_vector_store or add_documents, the index directory
\* holds either the complete previous snapshot or a complete new snapshot,
\* never a partially overwritten or mixed one.
C11_AtomicSave ==
    [][last'.op = "crash" => (disk' = disk \/ Snapshot(disk'))]_vars

(***************************************************************************)
(* Incremental insertion: create_vector_store() over a document source,    *)
(* then one add_documents(B), then searches.  DocC shares the embedding of *)
(* DocB, so that searches have exact ties between entries.                 *)
(***************************************************************************)
DocC == Document(<<"b">>, "f4.txt")

IncSources ==
    { <<File(TRUE, <<DocA>>)>>,
      <<File(TRUE, <<DocB>>)>>,
      <<File(TRUE, <<DocC>>)>>,
      <<File(TRUE, <<DocA>>), File(TRUE, <<DocB>>)>>,
      <<File(TRUE, <<DocC, DocB>>)>> }

IncLists == {<<DocA>>, <<DocB>>, <<DocC>>, <<DocC, DocA>>, <<DocE, DocB>>}

IncQuestions == Questions \cup {<<>>}

Effect(op, S, arg, n) ==
    /\ vector_store' = S.vector_store
    /\ qa_chain' = S.qa_chain
    /\ disk' = S.disk
    /\ last' = Outcome(op, S, arg, n)
    /\ UNCHANGED <<kb, crashes, singleton>>

InitIncremental ==
    /\ vector_store = None
    /\ qa_chain = NoChain
    /\ disk = NoDisk
    /\ kb \in IncSources
    /\ crashes = 0
    /\ NoCalls
    /\ last = Outcome("__init__", Self, <<>>, 0)

BuildFromSource ==
    /\ last.op = "__init__"
    /\ Effect("create_vector_store", create_vector_store(Self, Default),
              load_documents(kb), 0)

AddIncrement ==
    /\ last.op = "create_vector_store"
    /\ \E docs \in IncLists : Effect("add_documents", add_documents(Self, docs), docs, 0)

SearchAfterAdd ==
    /\ last.op = "add_documents"
    /\ \E question \in IncQuestions, k \in 1..K :
          Effect("retrieve_context", retrieve_context(Self, question, k), last.arg, k)

NextIncremental == BuildFromSource \/ AddIncrement \/ SearchAfterAdd

SpecIncremental == InitIncremental /\ [][NextIncremental]_vars

C12_Scratch == FAISS_from_documents(load_documents(kb) \o last.arg)

C12_Ordered(index, question, k) ==
    LET hits == nearest(index, embed(question), k, {})
        d(n) == distance(index[hits[n]], embed(question))
    IN  \A m, n \in 1..Len(hits) :
            m < n => (d(m) < d(n) \/ (d(m) = d(n) /\ hits[m] < hits[n]))

Pipeline == <<vector_store, qa_chain, disk, kb, crashes, last>>

InitSingleton ==
    /\ vector_store = None
    /\ qa_chain = NoChain
    /\ disk = NoDisk
    /\ kb = <<>>
    /\ crashes = 0
    /\ NoCalls
    /\ last = Outcome("__init__", Self, <<>>, 0)

CallGetRagSystem(t) ==
    /\ threads[t].at = "idle"
    /\ threads[t].calls < MaxCalls
    /\ threads' = [threads EXCEPT ![t].at = "check", ![t].calls = @ + 1]
    /\ UNCHANGED <<Pipeline, rag_instance, constructed>>

CheckNone(t) ==
    /\ threads[t].at = "check"
    /\ threads' = [threads EXCEPT ![t].at = IF rag_instance = 0 THEN "construct"
                                           ELSE "return"]
    /\ UNCHANGED <<Pipeline, rag_instance, constructed>>

Construct(t) ==
    /\ threads[t].at = "construct"
    /\ constructed' = constructed + 1
    /\ threads' = [threads EXCEPT ![t].at = "assign", ![t].new = constructed + 1]
    /\ UNCHANGED <<Pipeline, rag_instance>>

AssignInstance(t) ==
    /\ threads[t].at = "assign"
    /\ rag_instance' = threads[t].new
    /\ threads' = [threads EXCEPT ![t].at = "return"]
    /\ UNCHANGED <<Pipeline, constructed>>

ReturnInstance(t) ==
    /\ threads[t].at = "return"
    /\ threads' = [threads EXCEPT ![t].at = "idle", ![t].returned = rag_instance]
    /\ UNCHANGED <<Pipeline, rag_instance, constructed>>

NextSingleton ==
    \E t \in Threads :
        \/ CallGetRagSystem(t)
        \/ CheckNone(t)
        \/ Construct(t)
        \/ AssignInstance(t)
        \/ ReturnInstance(t)

SpecSingleton == InitSingleton /\ [][NextSingleton]_vars

\* C13: get_rag_system is a singleton accessor: over any sequence of calls,
\* including calls of two threads whose None-check and construction
\* interleave, at most one CarbonFootprintRAG is ever constructed and every
\* call returns that same instance.
C13_Singleton ==
    /\ constructed <= 1
    /\ \A t, u \in Threads :
          (threads[t].returned # 0 /\ threads[u].returned # 0)
              => threads[t].returned = threads[u].returned

\* C14: after any sequence of query, create_vector_store, add_documents and
\* retrieve_context calls, the retriever of the cached qa_chain searches the
\* pipeline's current vector store, the index retrieve_context searches: a
\* create_vector_store after the chain was set up is visible to later queries.
C14_RetrieverIsCurrent ==
    qa_chain.set =>
        \A question \in Questions :
            similarity_search(retriever(Self), question, K)
                = similarity_search(vector_store, question, K)

C15_Header1 == <<"[", "S", "o", "u", "r", "c", "e", " ", "1", "]", ":", " ">>

\* C15: get_context_for_agent never returns an empty string: its result is
\* the fixed "no relevant context" string or begins with "[Source 1]: ",
\* also when the first block alone is longer than max_length.
C15_NeverEmpty ==
    last.op = "format_context" =>
        \/ last.text = NoContext
        \/ /\ Len(last.text) >= Len(C15_Header1)
           /\ SubSeq(last.text, 1, Len(C15_Header1)) = C15_Header1

C16_Contains(entries, docs) ==
    /\ Len(entries) >= Len(docs)
    /\ SubSeq(entries, Len(entries) - Len(docs) + 1, Len(entries)) = docs

\* C16: add_documents(docs) with a non-empty list, in any pipeline state,
\* returns normally with vector_store not None and docs in both the
\* in-memory and the persisted index, also when nothing is persisted and the
\* document source yields no chunk.
C16_AddAlwaysSucceeds ==
    (last.op = "add_documents" /\ last.arg # <<>>)
    => /\ last.err = ""
       /\ vector_store.some
       /\ C16_Contains(vector_store.docstore, last.arg)
       /\ Loadable(disk)
       /\ C16_Contains(disk.pkl.data, last.arg)

====
